---- MODULE Spec2Model ----
(***************************************************************************)
(* Model of peanutbutter's per-project budget tracker, src/src/stats.rs.   *)
(*                                                                         *)
(* Time is counted in integer ticks.  Spend amounts are integers (the f64  *)
(* sums of the small integral amounts used here are exact).                *)
(*                                                                         *)
(* crate::config (BudgetingConfig, Timer) is not part of the sources; its  *)
(* truncated_now() and the derivation of num_buckets are modelled from     *)
(* the specification text: truncation maps the clock onto a grid spaced by *)
(* bucket_width.  The phase of that grid is not fixed by the text, so it   *)
(* is a parameter of the initial state (grid_origin).                      *)
(***************************************************************************)
EXTENDS Integers, Sequences, FiniteSets, TLC

\* ---------------------------------------------------------------- bounds
MaxWidth   == 2      \* bucket_width ranges over 1..MaxWidth
MaxWindow  == 2      \* budgeting_window ranges over 1..MaxWindow
MaxBackoff == 2      \* backoff_duration ranges over 0..MaxBackoff
MaxBudget  == 1      \* allowed_budget ranges over 0..MaxBudget
MaxAmount  == 1      \* one record_budget_spend call spends 0..MaxAmount
MaxSpent   == 2      \* cap on the amount accumulated in one bucket
MaxElapsed == 5      \* the clock runs from StartTime to StartTime + MaxElapsed
MaxRewinds == 1      \* backward steps of the clock in one behaviour

\* The clock starts late enough for `now - budgeting_window` never to
\* underflow (quanta's Instant - Duration panics on underflow).
StartTime == MaxWindow + MaxWidth
MaxTime   == StartTime + MaxElapsed

VARIABLES
    config,            \* Arc<BudgetingConfig>, immutable
    clock,             \* the (mock) clock: raw current time
    grid_origin,       \* phase of the truncation grid of the Timer
    exceeds_budget,    \* ProjectStats.exceeds_budget
    backoff_deadline,  \* ProjectStats.backoff_deadline: <<>> is None, <<t>> is Some(t)
    budget_buckets,    \* ProjectStats.budget_buckets, front first: <<ts, spent>> pairs
    recorded_at,       \* history: per bucket, raw clock time of its oldest non-zero spend
    op,                \* history: the last step taken
    ret,               \* history: value returned by the last call
    arg,               \* history: spent_budget argument of the last record call
    recomputed,        \* history: the last call passed the backoff guard
    counted,           \* history: indices of the buckets the last call summed
    evicted,           \* history: the last call popped the oldest bucket
    last_flip_clock,   \* history: raw clock time of the last flip of exceeds_budget
    flips,             \* history: number of flips so far, saturating at 2
    rewinds            \* history: number of backward steps of the clock so far

vars == <<config, clock, grid_origin, exceeds_budget, backoff_deadline,
          budget_buckets, recorded_at, op, ret, arg, recomputed, counted,
          evicted, last_flip_clock, flips, rewinds>>

None == <<>>
Some(t) == <<t>>

Min(a, b) == IF a <= b THEN a ELSE b

\* ------------------------------------------------------- crate::config
\* num_buckets = budgeting_window / bucket_width, rounded up.
CeilDiv(a, b) == (a + b - 1) \div b

BudgetingConfig(window, width, backoff, allowed) ==
    [budgeting_window |-> window,
     bucket_width     |-> width,
     backoff_duration |-> backoff,
     allowed_budget   |-> allowed,
     num_buckets      |-> CeilDiv(window, width)]

\* The clock value truncated to the bucket grid.
truncate(c, origin, width) == c - ((c - origin) % width)

truncated_now == truncate(clock, grid_origin, config.bucket_width)

\* ------------------------------------------------------- ProjectStats
Ts(b) == b[1]
Spent(b) == b[2]

\* The deadline comparison turned around.
BackoffActiveInverted(deadline, now) == deadline # None /\ deadline[1] < now

\* `deadline > now` under `if let Some(deadline) = self.backoff_deadline`.
BackoffActive(deadline, now) == deadline # None /\ deadline[1] > now

\* The window start taken one bucket too early.
InWindowWide(ts, now) ==
    ts >= now - config.budgeting_window - config.bucket_width

\* The lower bound of the window made exclusive.
InWindowStrict(ts, now) == ts > now - config.budgeting_window

\* No window filter at all.
InWindowAlways(ts, now) == TRUE

\* `b.0 >= lowest_time` with lowest_time = now - budgeting_window.
InWindow(ts, now) == ts >= now - config.budgeting_window

\* .filter_map(|b| (b.0 >= lowest_time).then_some(b.1)).sum()
RECURSIVE total_spent_budget(_, _)
total_spent_budget(buckets, now) ==
    IF buckets = <<>> THEN 0
    ELSE (IF InWindow(Ts(Head(buckets)), now) THEN Spent(Head(buckets)) ELSE 0)
         + total_spent_budget(Tail(buckets), now)

\* A tie at the threshold counted as exceeding.
OverBudgetInclusive(total) == total >= config.allowed_budget

\* total_spent_budget > self.config.allowed_budget
OverBudget(total) == total > config.allowed_budget

\* The deadline armed before the call's now.
ArmDeadlineEarly(now) == Some(now - config.backoff_duration)

\* Some(now + self.config.backoff_duration)
ArmDeadline(now) == Some(now + config.backoff_duration)

\* In backoff the freshly computed value is returned instead of the stored one.
update_aggregated_state_fresh_ret(buckets, now) ==
    LET new == OverBudget(total_spent_budget(buckets, now))
    IN IF BackoffActive(backoff_deadline, now)
       THEN [exceeds_budget   |-> exceeds_budget,
             backoff_deadline |-> backoff_deadline,
             ret              |-> new,
             recomputed       |-> FALSE,
             counted          |-> {}]
       ELSE [exceeds_budget   |-> new,
             backoff_deadline |-> IF exceeds_budget # new
                                  THEN ArmDeadline(now) ELSE None,
             ret              |-> new,
             recomputed       |-> TRUE,
             counted          |-> {i \in 1..Len(buckets) :
                                     InWindow(Ts(buckets[i]), now)}]

\* An expired deadline is left in place.
update_aggregated_state_keeps_deadline(buckets, now) ==
    IF BackoffActive(backoff_deadline, now)
    THEN [exceeds_budget   |-> exceeds_budget,
          backoff_deadline |-> backoff_deadline,
          ret              |-> exceeds_budget,
          recomputed       |-> FALSE,
          counted          |-> {}]
    ELSE LET new == OverBudget(total_spent_budget(buckets, now))
         IN [exceeds_budget   |-> new,
             backoff_deadline |-> IF exceeds_budget # new
                                  THEN ArmDeadline(now) ELSE backoff_deadline,
             ret              |-> new,
             recomputed       |-> TRUE,
             counted          |-> {i \in 1..Len(buckets) :
                                     InWindow(Ts(buckets[i]), now)}]

\* The recomputation returns the flag as stored before the call.
update_aggregated_state_stale_ret(buckets, now) ==
    IF BackoffActive(backoff_deadline, now)
    THEN [exceeds_budget   |-> exceeds_budget,
          backoff_deadline |-> backoff_deadline,
          ret              |-> exceeds_budget,
          recomputed       |-> FALSE,
          counted          |-> {}]
    ELSE LET new == OverBudget(total_spent_budget(buckets, now))
         IN [exceeds_budget   |-> new,
             backoff_deadline |-> IF exceeds_budget # new
                                  THEN ArmDeadline(now) ELSE None,
             ret              |-> exceeds_budget,
             recomputed       |-> TRUE,
             counted          |-> {i \in 1..Len(buckets) :
                                     InWindow(Ts(buckets[i]), now)}]

\* update_aggregated_state: the new hysteresis state and the returned value.
update_aggregated_state(buckets, now) ==
    IF BackoffActive(backoff_deadline, now)
    THEN [exceeds_budget   |-> exceeds_budget,
          backoff_deadline |-> backoff_deadline,
          ret              |-> exceeds_budget,
          recomputed       |-> FALSE,
          counted          |-> {}]
    ELSE LET new == OverBudget(total_spent_budget(buckets, now))
         IN [exceeds_budget   |-> new,
             backoff_deadline |-> IF exceeds_budget # new
                                  THEN ArmDeadline(now) ELSE None,
             ret              |-> new,
             recomputed       |-> TRUE,
             counted          |-> {i \in 1..Len(buckets) :
                                     InWindow(Ts(buckets[i]), now)}]

\* Merging only on an exact timestamp match.
IsCurrentExact(latest_ts, now) == latest_ts = now

\* `latest.0 >= now`: the front bucket is still current.
IsCurrent(latest_ts, now) == latest_ts >= now

\* Eviction one bucket too late.
AtCapacityLate(buckets) == Len(buckets) > config.num_buckets

\* `self.budget_buckets.len() >= self.config.num_buckets`
AtCapacity(buckets) == Len(buckets) >= config.num_buckets

\* pop_front in place of pop_back.
DropNewest(buckets) ==
    IF AtCapacity(buckets) THEN Tail(buckets) ELSE buckets

\* pop_back when at capacity
DropOldest(buckets) ==
    IF AtCapacity(buckets) THEN SubSeq(buckets, 1, Len(buckets) - 1) ELSE buckets

\* The merge overwrites the amount of the front bucket.
RecordIntoOverwrite(buckets, now, spent_budget) ==
    IF buckets # <<>>
    THEN IF IsCurrent(Ts(Head(buckets)), now)
         THEN <<<<Ts(Head(buckets)), spent_budget>>>> \o Tail(buckets)
         ELSE <<<<now, spent_budget>>>> \o DropOldest(buckets)
    ELSE <<<<now, spent_budget>>>>

\* The bucket sequence after record_budget_spend's bucket maintenance.
RecordInto(buckets, now, spent_budget) ==
    IF buckets # <<>>
    THEN IF IsCurrent(Ts(Head(buckets)), now)
         THEN <<<<Ts(Head(buckets)), Spent(Head(buckets)) + spent_budget>>>>
              \o Tail(buckets)
         ELSE <<<<now, spent_budget>>>> \o DropOldest(buckets)
    ELSE <<<<now, spent_budget>>>>

\* is_stale without the backoff guard.
is_stale_unguarded(now) ==
    \E i \in 1..Len(budget_buckets) : budget_buckets[i][1] >= now - config.budgeting_window

\* is_stale(now)
is_stale(now) ==
    IF BackoffActive(backoff_deadline, now)
    THEN FALSE
    ELSE \E i \in 1..Len(budget_buckets) : InWindow(Ts(budget_buckets[i]), now)

\* ------------------------------------------------------------ history
\* recorded_at after a record call made at raw clock time c.
RecordedAtAfter(buckets, now, spent_budget, c) ==
    LET stamp == IF spent_budget > 0 THEN Some(c) ELSE None
    IN IF buckets # <<>>
       THEN IF IsCurrent(Ts(Head(buckets)), now)
            THEN <<IF Head(recorded_at) = None THEN stamp
                   ELSE IF stamp = None THEN Head(recorded_at)
                   ELSE Some(Min(Head(recorded_at)[1], c))>>
                 \o Tail(recorded_at)
            ELSE <<stamp>> \o (IF AtCapacity(buckets)
                               THEN SubSeq(recorded_at, 1, Len(recorded_at) - 1)
                               ELSE recorded_at)
       ELSE <<stamp>>

FlipHistory(new_exceeds) ==
    IF new_exceeds # exceeds_budget
    THEN /\ last_flip_clock' = Some(clock)
         /\ flips' = Min(flips + 1, 2)
    ELSE UNCHANGED <<last_flip_clock, flips>>

\* ------------------------------------------------------------ actions
\* pub fn record_budget_spend(&mut self, spent_budget: f64) -> bool
DoRecord(spent_budget) ==
    LET now == truncated_now
        buckets == RecordInto(budget_buckets, now, spent_budget)
        upd == update_aggregated_state(buckets, now)
    IN /\ Spent(Head(buckets)) <= MaxSpent
       /\ budget_buckets' = buckets
       /\ recorded_at' = RecordedAtAfter(budget_buckets, now, spent_budget, clock)
       /\ evicted' = (Len(budget_buckets) + 1 > Len(buckets)
                      /\ budget_buckets # <<>>
                      /\ ~IsCurrent(Ts(Head(budget_buckets)), now))
       /\ exceeds_budget' = upd.exceeds_budget
       /\ backoff_deadline' = upd.backoff_deadline
       /\ ret' = upd.ret
       /\ recomputed' = upd.recomputed
       /\ counted' = upd.counted
       /\ op' = "record"
       /\ arg' = spent_budget
       /\ FlipHistory(upd.exceeds_budget)
       /\ UNCHANGED <<config, clock, grid_origin>>

\* exceeds_budget recomputes against the unrounded clock.
DoCheckUnrounded ==
    LET now == clock
        upd == update_aggregated_state(budget_buckets, now)
    IN /\ exceeds_budget' = upd.exceeds_budget
       /\ backoff_deadline' = upd.backoff_deadline
       /\ ret' = upd.ret
       /\ recomputed' = upd.recomputed
       /\ counted' = upd.counted
       /\ op' = "check"
       /\ arg' = 0
       /\ evicted' = FALSE
       /\ FlipHistory(upd.exceeds_budget)
       /\ UNCHANGED <<config, clock, grid_origin, budget_buckets, recorded_at>>

\* exceeds_budget also throws away the buckets older than the window.
DoCheckPruning ==
    LET now == truncated_now
        keep == {i \in 1..Len(budget_buckets) :
                    InWindow(Ts(budget_buckets[i]), now)}
        kept == SelectSeq(budget_buckets, LAMBDA b : InWindow(Ts(b), now))
        upd == update_aggregated_state(kept, now)
    IN /\ exceeds_budget' = upd.exceeds_budget
       /\ backoff_deadline' = upd.backoff_deadline
       /\ ret' = upd.ret
       /\ recomputed' = upd.recomputed
       /\ counted' = upd.counted
       /\ op' = "check"
       /\ arg' = 0
       /\ evicted' = FALSE
       /\ FlipHistory(upd.exceeds_budget)
       /\ budget_buckets' = kept
       /\ recorded_at' = [i \in 1..Len(kept) |-> None]
       /\ UNCHANGED <<config, clock, grid_origin>>

\* pub fn exceeds_budget(&mut self) -> bool
DoCheck ==
    LET now == truncated_now
        upd == update_aggregated_state(budget_buckets, now)
    IN /\ exceeds_budget' = upd.exceeds_budget
       /\ backoff_deadline' = upd.backoff_deadline
       /\ ret' = upd.ret
       /\ recomputed' = upd.recomputed
       /\ counted' = upd.counted
       /\ op' = "check"
       /\ arg' = 0
       /\ evicted' = FALSE
       /\ FlipHistory(upd.exceeds_budget)
       /\ UNCHANGED <<config, clock, grid_origin, budget_buckets, recorded_at>>

\* pub fn is_stale(&self, now: Instant) -> bool
DoIsStale(now) ==
    /\ ret' = is_stale(now)
    /\ op' = "is_stale"
    /\ arg' = 0
    /\ recomputed' = FALSE
    /\ counted' = {}
    /\ evicted' = FALSE
    /\ UNCHANGED <<config, clock, grid_origin, exceeds_budget, backoff_deadline,
                   budget_buckets, recorded_at, last_flip_clock, flips>>

\* The mock clock is incremented.
Advance(d) ==
    /\ clock' = clock + d
    /\ op' = "tick"
    /\ arg' = 0
    /\ ret' = FALSE
    /\ recomputed' = FALSE
    /\ counted' = {}
    /\ evicted' = FALSE
    /\ UNCHANGED <<config, grid_origin, exceeds_budget, backoff_deadline,
                   budget_buckets, recorded_at, last_flip_clock, flips>>

record_budget_spend ==
    /\ \E spent_budget \in 0..MaxAmount : DoRecord(spent_budget)
    /\ UNCHANGED rewinds

exceeds_budget_call ==
    /\ DoCheck
    /\ UNCHANGED rewinds

is_stale_call ==
    /\ DoIsStale(clock)
    /\ UNCHANGED rewinds

Tick ==
    /\ clock < MaxTime
    /\ Advance(1)
    /\ UNCHANGED rewinds

\* A clock that goes backwards between calls, by up to one bucket width.
ClockBack ==
    /\ rewinds < MaxRewinds
    /\ \E d \in 1..Min(config.bucket_width, clock - StartTime) : Advance(-d)
    /\ rewinds' = rewinds + 1

\* ProjectStats::new, for every configuration within the bounds.
InitStats ==
    /\ exceeds_budget = FALSE
    /\ backoff_deadline = None
    /\ budget_buckets = <<>>
    /\ recorded_at = <<>>
    /\ op = "new"
    /\ arg = 0
    /\ ret = FALSE
    /\ recomputed = FALSE
    /\ counted = {}
    /\ evicted = FALSE
    /\ last_flip_clock = None
    /\ flips = 0

\* The clock, the grid and a fresh tracker, for a configuration drawn from
\* the given ranges.
InitWith(backoffs, budgets) ==
    /\ \E window \in 1..MaxWindow, width \in 1..MaxWidth,
          backoff \in backoffs, allowed \in budgets :
          config = BudgetingConfig(window, width, backoff, allowed)
    /\ clock = StartTime
    /\ grid_origin \in 0..(config.bucket_width - 1)
    /\ rewinds = 0
    /\ InitStats

Init == InitWith(0..MaxBackoff, 0..MaxBudget)

\* Bucket maintenance does not read the hysteresis state, so the skewed
\* clock is explored under one backoff_duration and one allowed_budget.
InitSkew == InitWith({MaxBackoff}, {MaxBudget})

Next ==
    \/ record_budget_spend
    \/ exceeds_budget_call
    \/ is_stale_call
    \/ Tick

\* The tracker driven by a monotonic clock.
Spec == Init /\ [][Next]_vars

NextSkew ==
    \/ record_budget_spend
    \/ exceeds_budget_call
    \/ is_stale_call
    \/ Tick
    \/ ClockBack

\* The tracker driven by a clock that may also step backwards.
SpecSkew == InitSkew /\ [][NextSkew]_vars

\* From QuietFrom on no spend is recorded; the clock then runs on to QuietEnd,
\* far enough for every bucket to leave the window and every deadline to pass.
QuietFrom == StartTime + MaxWidth
QuietEnd  == QuietFrom + MaxWindow + MaxBackoff + MaxWidth + 1

RecordBeforeQuiet ==
    /\ clock <= QuietFrom
    /\ record_budget_spend

TickLive ==
    /\ clock < QuietEnd
    /\ Advance(1)
    /\ UNCHANGED rewinds

NextLive ==
    \/ RecordBeforeQuiet
    \/ exceeds_budget_call
    \/ TickLive

\* Spend stops, the clock keeps advancing and exceeds_budget keeps being
\* called.
SpecLive ==
    /\ Init
    /\ [][NextLive]_vars
    /\ WF_vars(TickLive)
    /\ WF_vars(exceeds_budget_call)

TypeOK ==
    /\ clock \in StartTime..(IF MaxTime > QuietEnd THEN MaxTime ELSE QuietEnd)
    /\ exceeds_budget \in BOOLEAN
    /\ Len(backoff_deadline) <= 1
    /\ Len(recorded_at) = Len(budget_buckets)

\* ------------------------------------------------------------- claims
\* The last step was a record_budget_spend or exceeds_budget call.
AfterCall == op \in {"record", "check"}

\* The `now` the last record/check call worked with (the clock is unchanged
\* by the call).
CallNow == truncated_now

\* The truncated time of the call that made the last flip.
LastFlipNow == truncate(last_flip_clock[1], grid_origin, config.bucket_width)

\* A backoff deadline is pending relative to the raw clock.
Pending == backoff_deadline # None /\ backoff_deadline[1] > clock

Buckets == 1..Len(budget_buckets)

\* Sum of the retained buckets from index i on whose timestamp lies within
\* budgeting_window of t.
RECURSIVE SumWithin(_, _)
SumWithin(i, t) ==
    IF i > Len(budget_buckets) THEN 0
    ELSE (IF budget_buckets[i][1] + config.budgeting_window >= t
          THEN budget_buckets[i][2] ELSE 0) + SumWithin(i + 1, t)

RECURSIVE SumAll(_)
SumAll(i) ==
    IF i > Len(budget_buckets) THEN 0 ELSE budget_buckets[i][2] + SumAll(i + 1)

\* C1 (as stated): once exceeds_budget has flipped at clock time t, it does
\* not flip again before clock time t + backoff_duration.
C1_FlipAfterClockBackoff ==
    [][(exceeds_budget' # exceeds_budget /\ last_flip_clock # None)
        => clock' >= last_flip_clock[1] + config.backoff_duration]_vars

\* C1 (amended): with a non-decreasing clock, once exceeds_budget has flipped
\* in a call whose truncated now is n, it does not flip again in any call
\* whose truncated now is below n + backoff_duration.
C1_FlipAfterTruncatedBackoff ==
    [][(exceeds_budget' # exceeds_budget /\ last_flip_clock # None)
        => truncated_now >= LastFlipNow + config.backoff_duration]_vars

\* A second flip has just happened, under a non-zero backoff_duration.
C1_Witness ==
    /\ AfterCall
    /\ flips >= 2
    /\ last_flip_clock = Some(clock)
    /\ config.backoff_duration > 0

\* C2: is_stale(now) is false when a backoff deadline is pending or some
\* retained bucket lies within budgeting_window of now, and true otherwise.
C2_StalenessCorrect ==
    op = "is_stale" =>
        ret = ~(Pending \/ \E i \in Buckets :
                    budget_buckets[i][1] >= clock - config.budgeting_window)

\* C3 (as stated): a recomputation made at clock time now counts no spend
\* that was recorded at a clock time T with now > T + budgeting_window.
C3_ExcludedByClock ==
    (AfterCall /\ recomputed) =>
        \A i \in Buckets :
            (recorded_at[i] # None
             /\ clock > recorded_at[i][1] + config.budgeting_window)
            => i \notin counted

\* C3 (amended): a recomputation counts no spend that was recorded by a call
\* whose truncated now B satisfies (truncated now of the recomputation)
\* > B + budgeting_window.
C3_ExcludedByTruncated ==
    (AfterCall /\ recomputed) =>
        \A i \in Buckets :
            (recorded_at[i] # None
             /\ CallNow > truncate(recorded_at[i][1], grid_origin,
                                   config.bucket_width)
                          + config.budgeting_window)
            => i \notin counted

\* A recomputation that returned "not exceeding" although the retained
\* buckets together exceed the budget: spend older than the window was left
\* out.
C3_Witness ==
    /\ AfterCall
    /\ recomputed
    /\ ret = FALSE
    /\ SumAll(1) > config.allowed_budget
    /\ \E i \in Buckets :
           /\ recorded_at[i] # None
           /\ CallNow > truncate(recorded_at[i][1], grid_origin,
                                 config.bucket_width)
                        + config.budgeting_window
           /\ i \notin counted

\* C4: a call made with no active backoff returns false when the buckets
\* within the window sum to exactly allowed_budget, and true when they sum
\* to allowed_budget + 1.
C4_ThresholdExact ==
    (AfterCall /\ recomputed) =>
        /\ (SumWithin(1, CallNow) = config.allowed_budget => ret = FALSE)
        /\ (SumWithin(1, CallNow) = config.allowed_budget + 1 => ret = TRUE)

\* A recomputation at a tie with a non-zero budget.
C4_Witness ==
    /\ AfterCall
    /\ recomputed
    /\ config.allowed_budget > 0
    /\ SumWithin(1, CallNow) = config.allowed_budget
    /\ ret = FALSE

\* C5: the number of retained buckets never exceeds num_buckets.
C5_CapacityBound == Len(budget_buckets) <= config.num_buckets

\* A record call evicted the oldest bucket of a full sequence.
C5_Witness ==
    /\ op = "record"
    /\ evicted
    /\ Len(budget_buckets) = config.num_buckets
    /\ config.num_buckets >= 2

\* C6: is_stale(now) is false while a backoff deadline is pending.
C6_NotStaleInBackoff ==
    (op = "is_stale" /\ Pending) => ret = FALSE

\* is_stale answered during a pending backoff while every retained bucket is
\* older than the window.
C6_Witness ==
    /\ op = "is_stale"
    /\ Pending
    /\ budget_buckets # <<>>
    /\ \A i \in Buckets :
           budget_buckets[i][1] < clock - config.budgeting_window
    /\ ret = FALSE

\* C8: once every retained bucket is older than now - budgeting_window and
\* no backoff deadline is pending, is_stale(now) returns true.
C8_StaleOnceOutOfWindow ==
    (/\ op = "is_stale"
     /\ ~Pending
     /\ \A i \in Buckets :
            budget_buckets[i][1] < clock - config.budgeting_window)
    => ret = TRUE

\* C9: the bucket timestamps are strictly decreasing from the front.
C9_StrictlyDecreasing ==
    \A i \in Buckets :
        i < Len(budget_buckets) => budget_buckets[i][1] > budget_buckets[i + 1][1]

\* After the clock went backwards, a record call found the front bucket
\* newer than its truncated now and merged into it.
C9_Witness ==
    /\ op = "record"
    /\ rewinds > 0
    /\ Len(budget_buckets) >= 2
    /\ budget_buckets[1][1] > truncated_now

\* C10 (as stated): a present backoff_deadline is at least the clock time of
\* the call that armed it.
C10_DeadlineAfterClock ==
    backoff_deadline # None => backoff_deadline[1] >= last_flip_clock[1]

\* C10 (amended): a present backoff_deadline is at least the truncated now
\* of the call that armed it.
C10_DeadlineAfterTruncated ==
    backoff_deadline # None => backoff_deadline[1] >= LastFlipNow

\* A call has just armed the deadline.
C10_Witness ==
    /\ AfterCall
    /\ recomputed
    /\ backoff_deadline # None
    /\ last_flip_clock = Some(clock)

\* A record_budget_spend or exceeds_budget call is being made.
Call == op' \in {"record", "check"}

\* The deadline is set and lies after the truncated now of the call.
InBackoff == backoff_deadline # None /\ backoff_deadline[1] > truncated_now

\* C11: a call made while backoff_deadline is set and deadline > now returns
\* the previously stored exceeds_budget and leaves exceeds_budget and
\* backoff_deadline unchanged; a check leaves the whole tracker unchanged.
C11_BackoffGuard ==
    [][(Call /\ InBackoff) =>
           /\ ret' = exceeds_budget
           /\ exceeds_budget' = exceeds_budget
           /\ backoff_deadline' = backoff_deadline
           /\ (op' = "check" => budget_buckets' = budget_buckets)]_vars

\* A call answered from the stored flag during a backoff although the window
\* sum says otherwise.
C11_Witness ==
    /\ AfterCall
    /\ ~recomputed
    /\ backoff_deadline # None /\ backoff_deadline[1] > CallNow
    /\ ret # (SumWithin(1, CallNow) > config.allowed_budget)

\* C12: a call made with no active backoff ends with backoff_deadline =
\* now + backoff_duration and the stored flag updated if the newly computed
\* boolean differs from the stored one, and with no backoff_deadline and the
\* stored flag unchanged if they are equal.
C12_ArmedExactlyOnFlip ==
    [][(Call /\ ~InBackoff) =>
           IF (SumWithin(1, CallNow) > config.allowed_budget)' # exceeds_budget
           THEN /\ exceeds_budget' = ~exceeds_budget
                /\ backoff_deadline' =
                       <<truncated_now + config.backoff_duration>>
           ELSE /\ exceeds_budget' = exceeds_budget
                /\ backoff_deadline' = <<>>]_vars

\* After the deadline of an earlier flip has passed, a call recomputed
\* without flipping and ended with no deadline.
C12_Witness ==
    /\ AfterCall
    /\ recomputed
    /\ backoff_deadline = None
    /\ flips >= 1
    /\ last_flip_clock # None
    /\ CallNow >= LastFlipNow + config.backoff_duration
    /\ config.backoff_duration > 0

\* C13: a call made with no active backoff returns true iff the spend of the
\* retained buckets with timestamp >= now - budgeting_window sums to more
\* than allowed_budget; a bucket exactly at now - budgeting_window is
\* counted, older ones are not.
C13_AggregationRule ==
    (AfterCall /\ recomputed) =>
        /\ ret = (SumWithin(1, CallNow) > config.allowed_budget)
        /\ counted = {i \in Buckets :
                         budget_buckets[i][1] >= CallNow - config.budgeting_window}

\* The bucket exactly at the window start decided the result while an older
\* bucket was left out.
C13_Witness ==
    /\ AfterCall
    /\ recomputed
    /\ ret = TRUE
    /\ \E i \in counted :
           /\ budget_buckets[i][1] = CallNow - config.budgeting_window
           /\ SumWithin(1, CallNow) - budget_buckets[i][2]
                 <= config.allowed_budget
    /\ \E j \in Buckets : j \notin counted /\ budget_buckets[j][2] > 0

\* C14: record_budget_spend(a) called when the newest bucket's timestamp is
\* not older than the truncated now adds a to that bucket's amount and leaves
\* the number, order, timestamps and other amounts of the buckets unchanged.
C14_MergeStep ==
    [][(/\ op' = "record"
        /\ budget_buckets # <<>>
        /\ budget_buckets[1][1] >= truncated_now)
       => budget_buckets' =
            [budget_buckets EXCEPT ![1] = <<@[1], @[2] + arg'>>]]_vars

\* After the clock went backwards, a non-zero spend was merged into a front
\* bucket that is newer than the truncated now.
C14_Witness ==
    /\ op = "record"
    /\ arg > 0
    /\ rewinds > 0
    /\ Len(budget_buckets) >= 2
    /\ budget_buckets[1][1] > truncated_now
    /\ budget_buckets[1][2] > arg

\* C15: record_budget_spend(a) called when there is no bucket or the newest
\* bucket is older than the truncated now puts (now_bucket, a) at the front;
\* if the sequence held num_buckets buckets exactly the oldest one is
\* removed; every other bucket is kept unchanged and in order.
C15_InsertEvictStep ==
    [][(/\ op' = "record"
        /\ (budget_buckets = <<>> \/ budget_buckets[1][1] < truncated_now))
       => budget_buckets' =
            <<<<truncated_now, arg'>>>>
            \o (IF Len(budget_buckets) = config.num_buckets
                THEN [i \in 1..(Len(budget_buckets) - 1) |-> budget_buckets[i]]
                ELSE budget_buckets)]_vars

\* A non-zero spend was inserted in front of a full sequence of at least two
\* buckets, whose oldest bucket was dropped.
C15_Witness ==
    /\ op = "record"
    /\ evicted
    /\ arg > 0
    /\ config.num_buckets >= 2
    /\ Len(budget_buckets) = config.num_buckets
    /\ budget_buckets[1] = <<truncated_now, arg>>

\* C16: exceeds_budget never changes the bucket sequence, and a bucket leaves
\* the sequence only as the tail dropped by a record_budget_spend call on a
\* full sequence.
C16_CheckKeepsBuckets ==
    [][/\ (op' = "check" => budget_buckets' = budget_buckets)
       /\ \A i \in Buckets :
             (\A j \in 1..Len(budget_buckets') :
                  budget_buckets'[j][1] # budget_buckets[i][1])
             => /\ op' = "record"
                /\ evicted'
                /\ i = Len(budget_buckets)
                /\ Len(budget_buckets) = config.num_buckets]_vars

\* A check recomputed the state while a bucket with spend older than the
\* window was, and stayed, stored.
C16_Witness ==
    /\ op = "check"
    /\ recomputed
    /\ \E i \in Buckets :
           /\ budget_buckets[i][1] < CallNow - config.budgeting_window
           /\ budget_buckets[i][2] > 0

\* C17 (as stated): the recomputation in record_budget_spend and in
\* exceeds_budget works with the unrounded clock: the comparison with the
\* backoff deadline, the window start and a newly armed deadline.
C17_RecomputesUnrounded ==
    [][Call =>
         /\ recomputed' = ~(backoff_deadline # None /\ backoff_deadline[1] > clock)
         /\ recomputed' =>
               /\ counted' = {i \in 1..Len(budget_buckets') :
                                 budget_buckets'[i][1]
                                    >= clock - config.budgeting_window}
               /\ (backoff_deadline' # None =>
                      backoff_deadline' = <<clock + config.backoff_duration>>)]_vars

\* C17 (amended): record_budget_spend selects the bucket by the truncated
\* time and hands the same truncated time to the recomputation, and
\* exceeds_budget recomputes against the truncated time too: the comparison
\* with the backoff deadline, the window start and a newly armed deadline
\* are all taken from the truncated now.
C17_RecomputesTruncated ==
    [][Call =>
         /\ recomputed' = ~InBackoff
         /\ recomputed' =>
               /\ counted' = {i \in 1..Len(budget_buckets') :
                                 budget_buckets'[i][1]
                                    >= truncated_now - config.budgeting_window}
               /\ (backoff_deadline' # None =>
                      backoff_deadline' =
                         <<truncated_now + config.backoff_duration>>)]_vars

\* A recomputation inside a grid cell whose outcome differs from what the
\* unrounded clock would give: the counted buckets differ and the deadline
\* it armed is not clock + backoff_duration.
C17_Witness ==
    /\ AfterCall
    /\ recomputed
    /\ CallNow < clock
    /\ counted # {i \in Buckets :
                     budget_buckets[i][1] >= clock - config.budgeting_window}
    /\ backoff_deadline # None
    /\ backoff_deadline[1] # clock + config.backoff_duration

\* C18: with num_buckets = ceil(budgeting_window / bucket_width) and a
\* non-decreasing clock, the eviction in record_budget_spend never removes a
\* bucket with timestamp >= now_bucket - budgeting_window, and a record call
\* never leaves a smaller window sum than a check at that instant would find.
C18_EvictsOnlyOutOfWindow ==
    [][(op' = "record") =>
         /\ evicted' =>
               budget_buckets[Len(budget_buckets)][1]
                  < truncated_now - config.budgeting_window
         /\ SumWithin(1, truncated_now)' >= SumWithin(1, truncated_now)]_vars

\* C19: after every record_budget_spend or exceeds_budget call the returned
\* boolean equals the stored exceeds_budget flag.
C19_ReturnsStoredFlag == AfterCall => ret = exceeds_budget

\* A recomputation that flipped the stored flag to true and returned true.
C19_Witness ==
    /\ AfterCall
    /\ recomputed
    /\ last_flip_clock = Some(clock)
    /\ ret = TRUE
    /\ exceeds_budget = TRUE

\* C20: once no more spend is recorded and the clock keeps advancing while
\* exceeds_budget is called again and again, the calls eventually return
\* false and keep returning false.
C20_EventuallyUnblocked ==
    /\ <>[](op = "check" => ret = FALSE)
    /\ []<>(op = "check")

\* After the spending stopped, a tracker that had been over budget answered
\* a check with false.
C20_Witness ==
    /\ op = "check"
    /\ ret = FALSE
    /\ flips >= 2
    /\ clock > QuietFrom
====
